---- MODULE Spec2Model ----
(***************************************************************************)
(* Needs-based insurance recommendation engine                             *)
(* (app/recommendation/needs_engine.py, app/schemas/recommendation.py,     *)
(* app/main.py).                                                           *)
(*                                                                         *)
(* Representation                                                          *)
(*   - a Python value that may be None is an option: None is <<>>, a       *)
(*     present value v is <<v>>;                                           *)
(*   - a str is the sequence of its characters, so that str.lower() and    *)
(*     the substring test `"age" in eligibility` are computed;             *)
(*   - a dict is a record from its keys to options; dict.get(k) of a key   *)
(*     that is absent is None;                                             *)
(*   - amounts are whole currency units.  premium <= budget * 1.3 is       *)
(*     decided as 10 * premium <= 13 * budget and coverage / premium >= n  *)
(*     as coverage >= n * premium, which agree with the float comparisons  *)
(*     for whole amounts of this size;                                     *)
(*   - product_name stands for the pass-through columns (product_name,     *)
(*     provider, description, frequency), which the engine copies without  *)
(*     reading.                                                            *)
(***************************************************************************)
EXTENDS Integers, Sequences, FiniteSets, TLC

VARIABLES
    pc,        \* position of the current call: "call"/"idle", "ret"/"done"
    arg,       \* arguments of the pure function under call
    ret,       \* its return value
    table,     \* rows of insurance_products, each with its active flag
    profile,   \* the dict handed to recommend_policies
    products,  \* what fetch_active_products returned
    scored,    \* the local list `scored` after the sort
    result,    \* outcome of recommend_policies: the exception raised or the list
    request,   \* body of POST /recommend
    response   \* HTTP status and body of the answer

vars == <<pc, arg, ret, table, profile, products, scored, result, request, response>>

----------------------------------------------------------------------------
(* Python values *)

None == <<>>

Some(v) == <<v>>

\* dict.get(k)
Get(d, k) == IF k \in DOMAIN d THEN d[k] ELSE None

\* truth value of an optional bool
Truthy(o) == o # None /\ o[1] = TRUE

\* float(x or 0) of an optional number
FloatOr0(o) == IF o = None THEN 0 ELSE o[1]

\* (x or "") of an optional str
StrOrEmpty(o) == IF o = None THEN <<>> ELSE o[1]

Min(a, b) == IF a <= b THEN a ELSE b

UpperChars == <<"A","B","C","D","E","F","G","H","I","J","K","L","M",
                "N","O","P","Q","R","S","T","U","V","W","X","Y","Z">>

LowerChars == <<"a","b","c","d","e","f","g","h","i","j","k","l","m",
                "n","o","p","q","r","s","t","u","v","w","x","y","z">>

LowerChar(c) ==
    IF \E i \in 1..Len(UpperChars) : UpperChars[i] = c
    THEN LowerChars[CHOOSE i \in 1..Len(UpperChars) : UpperChars[i] = c]
    ELSE c

\* str.lower()
Lower(s) == [i \in 1..Len(s) |-> LowerChar(s[i])]

\* sub in s
Contains(sub, s) ==
    \E i \in 1..(Len(s) - Len(sub) + 1) : SubSeq(s, i, i + Len(sub) - 1) = sub

StrLife == <<"l","i","f","e">>

StrAccident == <<"a","c","c","i","d","e","n","t">>

StrCar == <<"c","a","r">>

StrFuneral == <<"f","u","n","e","r","a","l">>

StrAge == <<"a","g","e">>

----------------------------------------------------------------------------
(* score_product *)

CategoryPointsLife50(category, prof) ==
    IF category = StrLife /\ Truthy(Get(prof, "has_dependants")) THEN 50
    ELSE IF category = StrAccident
            /\ Get(prof, "employment_risk") \in {Some("medium"), Some("high")} THEN 35
    ELSE IF category = StrCar /\ Truthy(Get(prof, "owns_car")) THEN 40
    ELSE IF category = StrFuneral THEN 20
    ELSE 0

\* CATEGORY RELEVANCE: the if/elif chain on the lower-cased category
CategoryPoints(category, prof) ==
    IF category = StrLife /\ Truthy(Get(prof, "has_dependants")) THEN 40
    ELSE IF category = StrAccident
            /\ Get(prof, "employment_risk") \in {Some("medium"), Some("high")} THEN 35
    ELSE IF category = StrCar /\ Truthy(Get(prof, "owns_car")) THEN 40
    ELSE IF category = StrFuneral THEN 20
    ELSE 0

BudgetPointsPenalty(premium, budget) ==
    IF budget > 0
    THEN IF premium <= budget THEN 25
         ELSE IF 10 * premium <= 13 * budget THEN 15
         ELSE 0 - 15
    ELSE 0

BudgetPointsStrict(premium, budget) ==
    IF budget > 0
    THEN IF premium <= budget THEN 25
         ELSE IF 10 * premium < 13 * budget THEN 15
         ELSE 0
    ELSE 0

\* BUDGET FIT
BudgetPoints(premium, budget) ==
    IF budget > 0
    THEN IF premium <= budget THEN 25
         ELSE IF 10 * premium <= 13 * budget THEN 15
         ELSE 0
    ELSE 0

\* VALUE FOR MONEY
ValuePoints(coverage, premium) ==
    IF premium > 0
    THEN IF coverage >= 1000 * premium THEN 20
         ELSE IF coverage >= 500 * premium THEN 10
         ELSE 0
    ELSE 0

\* AGE ELIGIBILITY
AgePoints(eligibility) == IF Contains(StrAge, eligibility) THEN 15 ELSE 0

\* the local `score` just before the return statement
ScoreSum(product, prof) ==
    LET category    == Lower(StrOrEmpty(Get(product, "category")))
        premium     == FloatOr0(Get(product, "premium_amount"))
        coverage    == FloatOr0(Get(product, "coverage_amount"))
        eligibility == Lower(StrOrEmpty(Get(product, "eligibility")))
        budget      == FloatOr0(Get(prof, "monthly_budget"))
    IN  CategoryPoints(category, prof)
        + BudgetPoints(premium, budget)
        + ValuePoints(coverage, premium)
        + AgePoints(eligibility)

score_product(product, prof) == Min(ScoreSum(product, prof), 100)

priority_band(score) ==
    IF score >= 80 THEN "high"
    ELSE IF score >= 60 THEN "medium"
    ELSE "low"

----------------------------------------------------------------------------
(* why_this_matters *)

ReasonRiskExposure == "Provides protection for higher daily risk exposure"

ReasonActivity == "Highly relevant based on your activity level"

ReasonDependants == "Helps secure your dependants' financial future"

ReasonLongTerm == "Strong long-term financial protection"

ReasonOwnership == "Essential protection for vehicle ownership"

ReasonBurden == "Helps reduce immediate financial burden on loved ones"

ReasonNoCost == "Includes coverage at no monthly cost"

ReasonStrongValue == "Offers strong coverage relative to the premium"

ReasonBudgetFit == "Fits comfortably within your monthly budget"

ReasonStrongMatch == "Strong overall match for your current needs"

ReasonAligned == "Reasonably aligned with your situation"

\* reasons.append(r) when cond holds
AppendIf(reasons, cond, r) == IF cond THEN Append(reasons, r) ELSE reasons

\* CATEGORY-SPECIFIC LOGIC: the list `reasons` after the if/elif chain
CategoryReasons(category, band, prof, premium) ==
    IF category = StrAccident
    THEN AppendIf(AppendIf(<<>>,
                           Get(prof, "employment_risk") \in {Some("medium"), Some("high")},
                           ReasonRiskExposure),
                  band = "high", ReasonActivity)
    ELSE IF category = StrLife
    THEN AppendIf(AppendIf(<<>>, Truthy(Get(prof, "has_dependants")), ReasonDependants),
                  band = "high", ReasonLongTerm)
    ELSE IF category = StrCar
    THEN AppendIf(<<>>, Truthy(Get(prof, "owns_car")), ReasonOwnership)
    ELSE IF category = StrFuneral
    THEN AppendIf(<<ReasonBurden>>, premium = 0, ReasonNoCost)
    ELSE <<>>

ReasonsBudgetFirst(category, score, prof, coverage, premium) ==
    LET band == priority_band(score)
        r1   == CategoryReasons(Lower(category), band, prof, premium)
        r2   == AppendIf(r1, premium <= FloatOr0(Get(prof, "monthly_budget")),
                         ReasonBudgetFit)
        r3   == AppendIf(r2, premium > 0 /\ coverage >= 800 * premium, ReasonStrongValue)
    IN  IF band = "high" THEN Append(r3, ReasonStrongMatch)
        ELSE IF band = "medium" THEN Append(r3, ReasonAligned)
        ELSE r3

\* the list `reasons` when the return statement is reached
Reasons(category, score, prof, coverage, premium) ==
    LET band == priority_band(score)
        r1   == CategoryReasons(Lower(category), band, prof, premium)
        r2   == AppendIf(r1, premium > 0 /\ coverage >= 800 * premium, ReasonStrongValue)
        r3   == AppendIf(r2, premium <= FloatOr0(Get(prof, "monthly_budget")),
                         ReasonBudgetFit)
    IN  IF band = "high" THEN Append(r3, ReasonStrongMatch)
        ELSE IF band = "medium" THEN Append(r3, ReasonAligned)
        ELSE r3

\* list(dict.fromkeys(s)): the first occurrence of every element, in order
RECURSIVE Dedupe(_)
Dedupe(s) ==
    IF s = <<>> THEN <<>>
    ELSE LET front == Dedupe(SubSeq(s, 1, Len(s) - 1))
             last  == s[Len(s)]
         IN  IF \E i \in 1..Len(front) : front[i] = last THEN front
             ELSE Append(front, last)

\* s[:n]
Take(s, n) == SubSeq(s, 1, Min(n, Len(s)))

why_this_matters_untruncated(category, score, prof, coverage, premium) ==
    Dedupe(Reasons(category, score, prof, coverage, premium))

why_this_matters_first_only(category, score, prof, coverage, premium) ==
    Take(Dedupe(Reasons(category, score, prof, coverage, premium)), 1)

why_this_matters(category, score, prof, coverage, premium) ==
    Take(Dedupe(Reasons(category, score, prof, coverage, premium)), 2)

best_for_text(category) ==
    LET c == Lower(category)
    IN  IF c = StrAccident THEN <<"Young professionals", "Working professionals">>
        ELSE IF c = StrLife THEN <<"People with dependants", "Primary income earners">>
        ELSE IF c = StrCar THEN <<"Vehicle owners", "Daily commuters">>
        ELSE IF c = StrFuneral THEN <<"All households", "Budget-conscious families">>
        ELSE <<>>

----------------------------------------------------------------------------
(* recommend_policies *)

\* fetch_active_products: the rows with active = true, in the order of the table
fetch_active_products(rows) ==
    LET IsActive(r) == r.active
        Row(r)      == r.product
        active      == SelectSeq(rows, IsActive)
    IN  [i \in 1..Len(active) |-> Row(active[i])]

\* the loop over products: one entry for every product that scores above 0;
\* pos is the index of the product in `products` (the identity of the dict)
RECURSIVE ScoreAll(_, _, _)
ScoreAll(prods, prof, n) ==
    IF n = 0 THEN <<>>
    ELSE LET rest  == ScoreAll(prods, prof, n - 1)
             score == score_product(prods[n], prof)
         IN  IF score > 0
             THEN Append(rest, [product |-> prods[n], score |-> score, pos |-> n])
             ELSE rest

InsertBeforeEqual(sorted, x) ==
    LET k == Cardinality({i \in 1..Len(sorted) : sorted[i].score > x.score})
    IN  SubSeq(sorted, 1, k) \o <<x>> \o SubSeq(sorted, k + 1, Len(sorted))

\* place x in a list already in sort order, after every entry that does not
\* rank below it
InsertAfterEqual(sorted, x) ==
    LET k == Cardinality({i \in 1..Len(sorted) : sorted[i].score >= x.score})
    IN  SubSeq(sorted, 1, k) \o <<x>> \o SubSeq(sorted, k + 1, Len(sorted))

\* list.sort(key=score, reverse=True): descending, equal keys keep their order
RECURSIVE SortByScoreDesc(_)
SortByScoreDesc(s) ==
    IF s = <<>> THEN <<>>
    ELSE InsertAfterEqual(SortByScoreDesc(SubSeq(s, 1, Len(s) - 1)), s[Len(s)])

\* the exception format_output raises for an item, "" when it returns:
\* best_for_text(None) fails on None.lower(), float(None) is a TypeError
FormatRaises(item) ==
    LET p == item.product
    IN  IF p.category = None THEN "AttributeError"
        ELSE IF p.coverage_amount = None THEN "TypeError"
        ELSE IF p.premium_amount = None THEN "TypeError"
        ELSE ""

\* format_output of an item it does not raise on
format_output(item, prof) ==
    LET p == item.product
        s == item.score
    IN  [policy_type          |-> p.product_name,
         confidence_score     |-> s,
         priority_band        |-> priority_band(s),
         best_for             |-> best_for_text(p.category[1]),
         why_this_matches_you |-> why_this_matters(p.category[1], s, prof,
                                                   p.coverage_amount[1],
                                                   p.premium_amount[1]),
         coverage_amount      |-> p.coverage_amount[1],
         premium_amount       |-> p.premium_amount[1]]

\* what follows the sort: top, second, and the formatting of both
Recommendations(sortedItems, prof) ==
    LET chosen == Take(sortedItems, 2)
        raised == {i \in 1..Len(chosen) : FormatRaises(chosen[i]) # ""}
    IN  IF raised # {}
        THEN [raised |-> FormatRaises(chosen[CHOOSE i \in raised : \A j \in raised : i <= j]),
              recommended_policies |-> <<>>]
        ELSE [raised |-> "",
              recommended_policies |->
                  [i \in 1..Len(chosen) |-> format_output(chosen[i], prof)]]

----------------------------------------------------------------------------
(* Inputs *)

\* longest table of insurance_products explored
MaxRows == 3

Nil == "nil"

\* a row as the select of fetch_active_products returns it: every selected
\* column is a key, a NULL column is None
Product(name, category, premium, coverage, eligibility) ==
    [product_name    |-> name,
     category        |-> category,
     premium_amount  |-> premium,
     coverage_amount |-> coverage,
     eligibility     |-> eligibility]

\* a profile dict: age is always a key, each of the four keys the engine
\* reads is a key unless its argument is None
Profile(budget, dependants, car, risk) ==
    LET keys == {"age"}
                \cup (IF budget = None THEN {} ELSE {"monthly_budget"})
                \cup (IF dependants = None THEN {} ELSE {"has_dependants"})
                \cup (IF car = None THEN {} ELSE {"owns_car"})
                \cup (IF risk = None THEN {} ELSE {"employment_risk"})
    IN  [k \in keys |->
            CASE k = "age" -> Some(30)
              [] k = "monthly_budget" -> budget
              [] k = "has_dependants" -> dependants
              [] k = "owns_car" -> car
              [] k = "employment_risk" -> risk]

Profiles(budgets, bools, risks) ==
    {Profile(b, d, c, r) : b \in budgets, d \in bools, c \in bools, r \in risks}

StrAgeText == <<"A","g","e"," ","1","8","+">>

StrPages == <<"p","a","g","e","s">>

StrAny == <<"a","n","y">>

StrPet == <<"p","e","t">>

AllProfiles ==
    Profiles({None, Some(0), Some(100)},
             {None, Some(FALSE), Some(TRUE)},
             {None, Some("low"), Some("medium"), Some("high")})

ScoreProducts ==
    {Product("P", c, p, v, e) :
        c \in {None, Some(StrLife), Some(<<"L","i","f","e">>), Some(StrAccident),
               Some(StrCar), Some(<<"C","A","R">>), Some(StrFuneral), Some(StrPet)},
        p \in {None, Some(0), Some(100), Some(130), Some(131)},
        v \in {None, Some(0), Some(49999), Some(50000), Some(99999), Some(100000),
               Some(130000)},
        e \in {None, Some(<<>>), Some(StrAgeText), Some(StrPages), Some(StrAny)}}

WhyArgs ==
    [category : {StrLife, <<"L","i","f","e">>, StrAccident, StrCar, StrFuneral, StrPet},
     score    : {0, 59, 60, 79, 80, 100},
     profile  : AllProfiles,
     coverage : {0, 79999, 80000},
     premium  : {0, 100, 101}]

\* the rows a table is made of
Rows ==
    {[active |-> TRUE,
      product |-> Product("A", Some(<<"L","i","f","e">>), Some(100), Some(100000),
                          Some(StrAgeText))],
     [active |-> FALSE,
      product |-> Product("A2", Some(StrLife), Some(100), Some(100000), Some(StrAgeText))],
     [active |-> TRUE,
      product |-> Product("B", Some(StrCar), Some(100), Some(50000), Some(<<>>))],
     [active |-> TRUE,
      product |-> Product("B2", Some(StrCar), Some(100), Some(50000), None)],
     [active |-> TRUE,
      product |-> Product("C", Some(StrFuneral), Some(0), Some(0), Some(StrAny))],
     [active |-> TRUE,
      product |-> Product("D", Some(StrFuneral), None, Some(100000), Some(StrAgeText))],
     [active |-> TRUE,
      product |-> Product("E", Some(StrPet), Some(131), None, None)],
     [active |-> TRUE,
      product |-> Product("F", None, Some(100), Some(100000), Some(StrPages))],
     [active |-> TRUE,
      product |-> Product("G", Some(StrAccident), Some(130), Some(130000),
                          Some(StrAgeText))]}

Tables == UNION {[1..n -> Rows] : n \in 0..MaxRows}

EngineProfiles ==
    Profiles({None, Some(100)}, {None, Some(TRUE)}, {None, Some("low"), Some("high")})

\* request bodies of POST /recommend, valid and invalid
Bodies ==
    [age               : {17, 18, 100, 101},
     monthly_income    : {0, 5000},
     dependants_count  : BOOLEAN,
     owns_car          : BOOLEAN,
     employment_status : {"student", "retired", "contractor"},
     owns_home         : BOOLEAN]

----------------------------------------------------------------------------
(* Calls of score_product *)

ScoreInit ==
    /\ pc = "call"
    /\ arg \in [product : ScoreProducts, profile : AllProfiles]
    /\ ret = Nil
    /\ table = Nil /\ profile = Nil /\ products = Nil /\ scored = Nil /\ result = Nil
    /\ request = Nil /\ response = Nil

ScoreProduct ==
    /\ pc = "call"
    /\ ret' = score_product(arg.product, arg.profile)
    /\ pc' = "ret"
    /\ UNCHANGED <<arg, table, profile, products, scored, result, request, response>>

ScoreNext == ScoreProduct

ScoreSpec == ScoreInit /\ [][ScoreNext]_vars

(* Calls of why_this_matters *)

WhyInit ==
    /\ pc = "call"
    /\ arg \in WhyArgs
    /\ ret = Nil
    /\ table = Nil /\ profile = Nil /\ products = Nil /\ scored = Nil /\ result = Nil
    /\ request = Nil /\ response = Nil

WhyThisMatters ==
    /\ pc = "call"
    /\ ret' = why_this_matters(arg.category, arg.score, arg.profile, arg.coverage,
                               arg.premium)
    /\ pc' = "ret"
    /\ UNCHANGED <<arg, table, profile, products, scored, result, request, response>>

WhyNext == WhyThisMatters

WhySpec == WhyInit /\ [][WhyNext]_vars

----------------------------------------------------------------------------
(* Calls of recommend_policies *)

\* the sorted list `scored` for a profile and the fetched products
Scored(prof, prods) == SortByScoreDesc(ScoreAll(prods, prof, Len(prods)))

\* what recommend_policies returns or raises
Outcome(prof, prods) ==
    LET sortedItems == Scored(prof, prods)
    IN  IF sortedItems = <<>>
        THEN [raised |-> "", recommended_policies |-> <<>>]
        ELSE Recommendations(sortedItems, prof)

Init ==
    /\ pc = "idle"
    /\ table \in Tables
    /\ profile = Nil /\ products = Nil /\ scored = Nil /\ result = Nil
    /\ arg = Nil /\ ret = Nil /\ request = Nil /\ response = Nil

recommend_policies(prof) ==
    /\ pc = "idle"
    /\ profile' = prof
    /\ products' = fetch_active_products(table)
    /\ scored' = Scored(prof, products')
    /\ result' = Outcome(prof, products')
    /\ pc' = "done"
    /\ UNCHANGED <<arg, ret, table, request, response>>

RecommendPolicies == \E prof \in EngineProfiles : recommend_policies(prof)

Next == RecommendPolicies

Spec == Init /\ [][Next]_vars

----------------------------------------------------------------------------
(* POST /recommend *)

EmploymentStatuses ==
    {"employed full-time", "employed part-time", "self-employed", "unemployed",
     "student", "retired"}

\* RecommendationInput accepts the body
Validates(body) ==
    /\ body.age >= 18 /\ body.age <= 100
    /\ body.monthly_income > 0
    /\ body.dependants_count \in BOOLEAN
    /\ body.owns_car \in BOOLEAN
    /\ body.employment_status \in EmploymentStatuses
    /\ body.owns_home \in BOOLEAN

\* input.dict()
InputDict(body) ==
    [age               |-> Some(body.age),
     monthly_income    |-> Some(body.monthly_income),
     dependants_count  |-> Some(body.dependants_count),
     owns_car          |-> Some(body.owns_car),
     employment_status |-> Some(body.employment_status),
     owns_home         |-> Some(body.owns_home)]

\* a body the schema refuses never reaches the handler
recommend_rejected(body) ==
    /\ pc = "idle"
    /\ ~Validates(body)
    /\ request' = body
    /\ response' = [status |-> 422, recommended_policies |-> <<>>]
    /\ pc' = "done"
    /\ UNCHANGED <<arg, ret, table, profile, products, scored, result>>

\* the handler: recommend_policies(input.dict()), any exception becomes a 500
recommend(body) ==
    /\ pc = "idle"
    /\ Validates(body)
    /\ request' = body
    /\ profile' = InputDict(body)
    /\ products' = fetch_active_products(table)
    /\ scored' = Scored(profile', products')
    /\ result' = Outcome(profile', products')
    /\ response' = IF result'.raised # ""
                   THEN [status |-> 500, recommended_policies |-> <<>>]
                   ELSE [status |-> 200,
                         recommended_policies |-> result'.recommended_policies]
    /\ pc' = "done"
    /\ UNCHANGED <<arg, ret, table>>

Recommend == \E body \in Bodies : recommend(body)

RecommendRejected == \E body \in Bodies : recommend_rejected(body)

RouteNext == Recommend \/ RecommendRejected

RouteSpec == Init /\ [][RouteNext]_vars

----------------------------------------------------------------------------
(* Properties of score_product, under ScoreSpec *)

\* C1: score_product returns an integer between 0 and 100 for every product
\* and profile, null product columns and absent profile keys included.
C1_ScoreInRange == pc = "ret" => ret \in 0..100

\* a call returned for a product with NULL category, premium and coverage and
\* a profile with none of the keys the engine reads
C1_Witness ==
    /\ pc = "ret"
    /\ arg.product.category = None
    /\ arg.product.premium_amount = None
    /\ arg.product.coverage_amount = None
    /\ DOMAIN arg.profile = {"age"}
    /\ ret = 15

\* C2: the score is min(C + B + V + A, 100): C the first matching category
\* rule, B the budget bucket (only when budget > 0, the 1.3 boundary
\* inclusive), V the value bucket (only when premium > 0), A 15 when the
\* lower-cased eligibility text contains "age".  A category is matched
\* whatever its case, a NULL amount counts as 0 and a NULL text as "".
C2_ScoreIsClampedBucketSum ==
    pc = "ret" =>
        LET p == arg.product
            f == arg.profile
            category == IF p.category = None THEN <<>> ELSE Lower(p.category[1])
            premium  == IF p.premium_amount = None THEN 0 ELSE p.premium_amount[1]
            coverage == IF p.coverage_amount = None THEN 0 ELSE p.coverage_amount[1]
            text     == IF p.eligibility = None THEN <<>> ELSE Lower(p.eligibility[1])
            budget   == IF "monthly_budget" \in DOMAIN f THEN f.monthly_budget[1] ELSE 0
            hasDependants == "has_dependants" \in DOMAIN f /\ f.has_dependants[1]
            ownsCar  == "owns_car" \in DOMAIN f /\ f.owns_car[1]
            risky    == "employment_risk" \in DOMAIN f
                        /\ f.employment_risk[1] \in {"medium", "high"}
            C == CASE category = StrLife /\ hasDependants -> 40
                   [] category = StrAccident /\ risky
                      /\ ~(category = StrLife /\ hasDependants) -> 35
                   [] category = StrCar /\ ownsCar -> 40
                   [] category = StrFuneral -> 20
                   [] OTHER -> 0
            B == CASE budget > 0 /\ premium <= budget -> 25
                   [] budget > 0 /\ premium > budget /\ 10 * premium <= 13 * budget -> 15
                   [] OTHER -> 0
            V == CASE premium > 0 /\ coverage >= 1000 * premium -> 20
                   [] premium > 0 /\ coverage < 1000 * premium
                      /\ coverage >= 500 * premium -> 10
                   [] OTHER -> 0
            A == IF \E i \in 1..Len(text) - 2 :
                        text[i] = "a" /\ text[i + 1] = "g" /\ text[i + 2] = "e"
                 THEN 15 ELSE 0
        IN  ret = (IF C + B + V + A <= 100 THEN C + B + V + A ELSE 100)

\* a call returned with the premium exactly at budget x 1.3, in upper case
\* category and eligibility text: 40 + 15 + 20 + 15
C2_Witness ==
    /\ pc = "ret"
    /\ arg.product.category = Some(<<"C","A","R">>)
    /\ arg.product.premium_amount = Some(130)
    /\ arg.product.coverage_amount = Some(130000)
    /\ arg.product.eligibility = Some(StrAgeText)
    /\ Get(arg.profile, "monthly_budget") = Some(100)
    /\ Get(arg.profile, "owns_car") = Some(TRUE)
    /\ ret = 90

\* C9: the sum of the four buckets is at most 100 before the clamp, so the
\* returned score is the unclamped sum.
C9_SumNeverExceeds100 ==
    pc = "ret" =>
        /\ ScoreSum(arg.product, arg.profile) <= 100
        /\ ret = ScoreSum(arg.product, arg.profile)

\* a call returned with every bucket at its maximum
C9_Witness ==
    /\ pc = "ret"
    /\ ScoreSum(arg.product, arg.profile) = 100
    /\ ret = 100

----------------------------------------------------------------------------
(* Properties of why_this_matters, under WhySpec *)

\* C6: the list returned by why_this_matters has at most 2 entries and no
\* two of them are the same string.
C6_AtMostTwoDistinctReasons ==
    pc = "ret" =>
        /\ Len(ret) <= 2
        /\ \A i, j \in 1..Len(ret) : i # j => ret[i] # ret[j]

\* a call returned two reasons out of four appended
C6_Witness ==
    /\ pc = "ret"
    /\ Len(Reasons(arg.category, arg.score, arg.profile, arg.coverage, arg.premium)) = 4
    /\ Len(ret) = 2

\* C8: why_this_matters returns the first two distinct strings of the
\* sequence of cues taken in the fixed order: category cues, strong value,
\* budget fit, confidence tone.
C8_FirstTwoDistinctInFixedOrder ==
    pc = "ret" =>
        LET f        == arg.profile
            category == Lower(arg.category)
            high     == arg.score >= 80
            medium   == arg.score >= 60 /\ arg.score < 80
            budget   == IF "monthly_budget" \in DOMAIN f THEN f.monthly_budget[1] ELSE 0
            cues == <<
                [when |-> category = StrAccident /\ "employment_risk" \in DOMAIN f
                          /\ f.employment_risk[1] \in {"medium", "high"},
                 say  |-> ReasonRiskExposure],
                [when |-> category = StrAccident /\ high, say |-> ReasonActivity],
                [when |-> category = StrLife /\ "has_dependants" \in DOMAIN f
                          /\ f.has_dependants[1],
                 say  |-> ReasonDependants],
                [when |-> category = StrLife /\ high, say |-> ReasonLongTerm],
                [when |-> category = StrCar /\ "owns_car" \in DOMAIN f /\ f.owns_car[1],
                 say  |-> ReasonOwnership],
                [when |-> category = StrFuneral, say |-> ReasonBurden],
                [when |-> category = StrFuneral /\ arg.premium = 0, say |-> ReasonNoCost],
                [when |-> arg.premium > 0 /\ arg.coverage >= 800 * arg.premium,
                 say  |-> ReasonStrongValue],
                [when |-> arg.premium <= budget, say |-> ReasonBudgetFit],
                [when |-> high, say |-> ReasonStrongMatch],
                [when |-> medium, say |-> ReasonAligned] >>
            Fires(c) == c.when
            said     == SelectSeq(cues, Fires)
            others   == {i \in 1..Len(said) : said[i].say # said[1].say}
        IN  IF said = <<>> THEN ret = <<>>
            ELSE IF others = {} THEN ret = <<said[1].say>>
            ELSE ret = <<said[1].say,
                         said[CHOOSE i \in others : \A j \in others : i <= j].say>>

\* a call returned the strong-value and budget-fit reasons, in that order,
\* ahead of the confidence tone
C8_Witness ==
    /\ pc = "ret"
    /\ arg.category = StrPet
    /\ arg.score = 80
    /\ ret = <<ReasonStrongValue, ReasonBudgetFit>>

----------------------------------------------------------------------------
(* Properties of recommend_policies, under Spec *)

\* C3: recommend_policies returns exactly min(2, k) items, k the number of
\* products scoring above 0: none with score 0, in descending score order,
\* no product left out scoring higher than a returned one, and an empty
\* list, not an error, when k = 0.
C3_TopTwoPositiveScoresDescending ==
    pc = "done" =>
        LET items    == result.recommended_policies
            positive == {i \in 1..Len(products) :
                            score_product(products[i], profile) > 0}
            k        == Cardinality(positive)
            returned == {scored[i].pos : i \in 1..Len(items)}
        IN  /\ result.raised = ""
            /\ Len(items) = Min(2, k)
            /\ \A i \in 1..Len(items) : items[i].confidence_score > 0
            /\ \A i \in 1..Len(items) :
                  items[i].confidence_score = score_product(products[scored[i].pos], profile)
            /\ \A i, j \in 1..Len(items) :
                  i < j => items[i].confidence_score >= items[j].confidence_score
            /\ \A out \in (1..Len(products)) \ returned : \A i \in 1..Len(items) :
                  score_product(products[out], profile) <= items[i].confidence_score

\* C4: a product whose premium_amount or coverage_amount is NULL never makes
\* recommend_policies raise (float(None) is a TypeError); the missing amount
\* is 0 in the returned item.
C4_NullAmountNeverRaises ==
    pc = "done" =>
        /\ result.raised # "TypeError"
        /\ \A i \in 1..Len(result.recommended_policies) :
              LET p == scored[i].product
                  item == result.recommended_policies[i]
              IN  /\ p.premium_amount = None => item.premium_amount = 0
                  /\ p.coverage_amount = None => item.coverage_amount = 0

\* C7: products with equal scores are ranked in the order the read returned
\* them, and the top 2 are taken in that ranking.
C7_TiesKeepRetrievalOrder ==
    pc = "done" =>
        /\ \A i, j \in 1..Len(scored) :
              (i < j /\ scored[i].score = scored[j].score) => scored[i].pos < scored[j].pos
        /\ \A a, b \in 1..Len(products) :
              (/\ a < b
               /\ score_product(products[a], profile) = score_product(products[b], profile)
               /\ \E i \in 1..Min(2, Len(scored)) : scored[i].pos = b)
              => \E i, j \in 1..Min(2, Len(scored)) :
                    i < j /\ scored[i].pos = a /\ scored[j].pos = b
        /\ \A i \in 1..Len(result.recommended_policies) :
              result.recommended_policies[i].policy_type
                  = products[scored[i].pos].product_name

\* three products scored, the last two with equal scores, two items returned:
\* the tie decided which of the two was left out
C7_Witness ==
    /\ pc = "done"
    /\ Len(scored) = 3
    /\ scored[2].score = scored[3].score
    /\ scored[1].score > scored[2].score
    /\ scored[2].product # scored[3].product
    /\ Len(result.recommended_policies) = 2

\* C10: a returned item whose band is "high" carries exactly 2 explanations;
\* an item with fewer than 2 has band "medium" or "low".
C10_HighBandHasTwoReasons ==
    pc = "done" =>
        \A i \in 1..Len(result.recommended_policies) :
            LET item == result.recommended_policies[i]
            IN  /\ item.priority_band = priority_band(item.confidence_score)
                /\ item.priority_band = "high" => Len(item.why_this_matches_you) = 2
                /\ Len(item.why_this_matches_you) < 2
                      => item.priority_band \in {"medium", "low"}

\* a high-band item with 2 explanations returned next to an item with one
C10_Witness ==
    /\ pc = "done"
    /\ Len(result.recommended_policies) = 2
    /\ result.recommended_policies[1].priority_band = "high"
    /\ Len(result.recommended_policies[1].why_this_matches_you) = 2
    /\ result.recommended_policies[2].priority_band = "low"
    /\ Len(result.recommended_policies[2].why_this_matches_you) = 1

----------------------------------------------------------------------------
(* Property of POST /recommend, under RouteSpec *)

\* C5: every profile the route passes to recommend_policies carries age in
\* 18..100, monthly_budget > 0, has_dependants and owns_car booleans and
\* employment_risk in {low, medium, high}, under those field names.
C5_ProfileCarriesEngineFields ==
    (pc = "done" /\ response.status # 422) =>
        /\ {"age", "monthly_budget", "has_dependants", "owns_car", "employment_risk"}
              \subseteq DOMAIN profile
        /\ profile.age[1] \in 18..100
        /\ profile.monthly_budget[1] > 0
        /\ profile.has_dependants[1] \in BOOLEAN
        /\ profile.owns_car[1] \in BOOLEAN
        /\ profile.employment_risk[1] \in {"low", "medium", "high"}

====
